---- MODULE Spec2Model ----
(***************************************************************************)
(* A model of the keyboard camera controller of js/main.js: the second     *)
(* (active) THREE.KeyControls definition, the scene it probes and the      *)
(* render loop that drives it.                                             *)
(*                                                                         *)
(* Numbers are fixed point.  Lengths are integers in 1/PosScale units,     *)
(* unit vectors and sines are integers in 1/TrigScale, angles in radians   *)
(* are integers in 1/RadScale rad, and lat is kept in 1/LatScale degrees   *)
(* (the code changes it in steps of 0.5).  Math.sin and Math.cos are a     *)
(* table at half-degree resolution.  With lookSpeed a quarter turn and     *)
(* lat = 0 every value below is exact.                                     *)
(*                                                                         *)
(* The world is scaled down.  The loaded object's wall stands ShedX units  *)
(* from the origin (250 in the source), movementSpeed is the constructor's *)
(* 1 (init sets 100) and a frame lasts 0..MaxDt seconds, so that a frame   *)
(* moves the camera by 0..MaxDt units; lookSpeed is a quarter turn (init   *)
(* sets 0.05 rad), so that the camera looks along a world axis.            *)
(*                                                                         *)
(* Spec is the page: keys, frames and the loader.  SpecKeys follows which  *)
(* of two keys of one flag are down.  SpecPitch starts from a controller   *)
(* whose pitch flags and options the host has set, which no key does.      *)
(* SpecWalk is a controller with movementSpeed 10 on a camera at the       *)
(* origin of a scene with nothing to collide with.                         *)
(***************************************************************************)
EXTENDS Integers, Sequences, FiniteSets

VARIABLES
    translateForward, translateBackward, translateLeft, translateRight,
    yawRight, yawLeft, pitchUp, pitchDown, freeze,
    movementSpeed, lookSpeed, lookVertical, invertVertical,
    lat, phi, theta, target,
    camera,      \* [position, quaternion] of the PerspectiveCamera
    scene,       \* scene.children
    last,        \* the event handled last, with the state it started from (history)
    held,        \* which of the watched keys are down (history)
    updated      \* updateView has been called (history)

flags == <<translateForward, translateBackward, translateLeft, translateRight,
           yawRight, yawLeft, pitchUp, pitchDown, freeze>>
config == <<movementSpeed, lookSpeed, lookVertical, invertVertical>>
angles == <<lat, phi, theta, target>>
world == <<scene>>
controller == <<flags, config, angles, camera>>
history == <<last, held, updated>>
vars == <<flags, config, angles, camera, world, history>>

-----------------------------------------------------------------------------
(* Bounds of the model. *)

MaxDt == 2          \* a frame's elapsed time is 0..MaxDt seconds
MaxTheta == 1       \* |theta| stays within MaxTheta steps of lookSpeed
MaxPos == 1         \* the camera stays within MaxPos seconds of travel along x
MaxHeld == 2        \* at most MaxHeld movement flags are set at a time
ShedX == 6          \* where the loaded object is put (250 in the source, scaled)

(* Fixed-point scales. *)
PosScale == 10 * 10
TrigScale == 100 * 100
RadScale == 100 * 100
LatScale == 1 + 1

(* Program constants. *)
Pi == 31416                 \* Math.PI, in 1/RadScale rad
collisionMargin == 5
distanceAhead == 100
LatLimit == 89
CameraY == 55
FloorHeight == 10
ShedY == 10

KeyW == 87
KeyA == 65
KeyS == 83
KeyD == 68
KeyUpArrow == 38
KeyDownArrow == 40
KeyLeftArrow == 37
KeyQ == 81
KeyRightArrow == 39
KeyE == 69
KeyEsc == 27
\* keys the handlers have no case for (Enter)
OtherKeys == {13}

RecognizedKeys == {KeyW, KeyA, KeyS, KeyD, KeyUpArrow, KeyDownArrow,
                   KeyLeftArrow, KeyQ, KeyRightArrow, KeyE, KeyEsc}

Keys == RecognizedKeys \cup OtherKeys

TranslationKeys == {KeyW, KeyUpArrow, KeyS, KeyDownArrow, KeyA, KeyD}

MovementKeys == RecognizedKeys \ {KeyEsc}

\* the keys whose being down is followed in held
WatchedKeys == {KeyW, KeyUpArrow}

-----------------------------------------------------------------------------
(* Arithmetic. *)

Abs(a) == IF a < 0 THEN -a ELSE a

Sign(a) == IF a < 0 THEN -1 ELSE IF a > 0 THEN 1 ELSE 0

\* a / b rounded to the nearest integer, b > 0
RoundDiv(a, b) == Sign(a) * ((2 * Abs(a) + b) \div (2 * b))

RECURSIVE SqrtSearch(_, _, _)
SqrtSearch(n, lo, hi) ==
    IF lo >= hi THEN lo
    ELSE LET mid == (lo + hi + 1) \div 2
         IN  IF mid * mid <= n THEN SqrtSearch(n, mid, hi)
             ELSE SqrtSearch(n, lo, mid - 1)

\* Math.sqrt, to the nearest integer
Sqrt(n) ==
    LET r == SqrtSearch(n, 0, 20000)
    IN  IF n - r * r > r THEN r + 1 ELSE r

Vector3(a, b, c) == [x |-> a, y |-> b, z |-> c]

add(v, w) == Vector3(v.x + w.x, v.y + w.y, v.z + w.z)

sub(v, w) == Vector3(v.x - w.x, v.y - w.y, v.z - w.z)

\* v times s / d
multiplyScalar(v, s, d) ==
    Vector3(RoundDiv(v.x * s, d), RoundDiv(v.y * s, d), RoundDiv(v.z * s, d))

\* the cross product of two vectors in 1/TrigScale
cross(v, w) ==
    Vector3(RoundDiv(v.y * w.z - v.z * w.y, TrigScale),
            RoundDiv(v.z * w.x - v.x * w.z, TrigScale),
            RoundDiv(v.x * w.y - v.y * w.x, TrigScale))

length(v) ==
    IF v.y = 0 /\ v.z = 0 THEN Abs(v.x)
    ELSE IF v.x = 0 /\ v.z = 0 THEN Abs(v.y)
    ELSE IF v.x = 0 /\ v.y = 0 THEN Abs(v.z)
    ELSE Sqrt(v.x * v.x + v.y * v.y + v.z * v.z)

\* the unit vector of v, in 1/TrigScale (v itself when v is zero)
normalize(v) ==
    LET l == length(v)
    IN  IF l = 0 THEN v ELSE multiplyScalar(v, TrigScale, l)

SinTable ==
    <<0, 87, 175, 262, 349, 436, 523, 610, 698, 785, 872, 958, 1045, 1132,
      1219, 1305, 1392, 1478, 1564, 1650, 1736, 1822, 1908, 1994, 2079, 2164,
      2250, 2334, 2419, 2504, 2588, 2672, 2756, 2840, 2924, 3007, 3090, 3173,
      3256, 3338, 3420, 3502, 3584, 3665, 3746, 3827, 3907, 3987, 4067, 4147,
      4226, 4305, 4384, 4462, 4540, 4617, 4695, 4772, 4848, 4924, 5000, 5075,
      5150, 5225, 5299, 5373, 5446, 5519, 5592, 5664, 5736, 5807, 5878, 5948,
      6018, 6088, 6157, 6225, 6293, 6361, 6428, 6494, 6561, 6626, 6691, 6756,
      6820, 6884, 6947, 7009, 7071, 7133, 7193, 7254, 7314, 7373, 7431, 7490,
      7547, 7604, 7660, 7716, 7771, 7826, 7880, 7934, 7986, 8039, 8090, 8141,
      8192, 8241, 8290, 8339, 8387, 8434, 8480, 8526, 8572, 8616, 8660, 8704,
      8746, 8788, 8829, 8870, 8910, 8949, 8988, 9026, 9063, 9100, 9135, 9171,
      9205, 9239, 9272, 9304, 9336, 9367, 9397, 9426, 9455, 9483, 9511, 9537,
      9563, 9588, 9613, 9636, 9659, 9681, 9703, 9724, 9744, 9763, 9781, 9799,
      9816, 9833, 9848, 9863, 9877, 9890, 9903, 9914, 9925, 9936, 9945, 9954,
      9962, 9969, 9976, 9981, 9986, 9990, 9994, 9997, 9998, 10000, 10000>>

\* the sine of h half-degrees, in 1/TrigScale
SinHalfDeg(h) ==
    LET m == h % 720
    IN  IF m <= 180 THEN SinTable[m + 1]
        ELSE IF m <= 360 THEN SinTable[360 - m + 1]
        ELSE IF m <= 540 THEN -SinTable[m - 360 + 1]
        ELSE -SinTable[720 - m + 1]

\* radians (1/RadScale) to half-degrees
ToHalfDeg(rad) == RoundDiv(rad * 360, Pi)

MathSin(rad) == SinHalfDeg(ToHalfDeg(rad))

MathCos(rad) == SinHalfDeg(ToHalfDeg(rad) + 180)

\* THREE.Math.degToRad of d / LatScale degrees
degToRad(d) == RoundDiv(d * Pi, 180 * LatScale)

Max(a, b) == IF a > b THEN a ELSE b

Min(a, b) == IF a < b THEN a ELSE b

-----------------------------------------------------------------------------
(* The camera: THREE.PerspectiveCamera.  Its quaternion is kept as the     *)
(* world-space images of the local axes, unit vectors in 1/TrigScale.      *)

up == Vector3(0, TrigScale, 0)

\* the orientation of a new Object3D: local axes are the world axes
IdentityQuaternion ==
    [x |-> Vector3(TrigScale, 0, 0), y |-> up, z |-> Vector3(0, 0, TrigScale)]

\* Vector3.applyQuaternion: v (1/TrigScale) rotated into world space
applyQuaternion(v, q) ==
    add(add(multiplyScalar(q.x, v.x, TrigScale), multiplyScalar(q.y, v.y, TrigScale)),
        multiplyScalar(q.z, v.z, TrigScale))

\* Object3D.translateZ / translateX: distance (1/PosScale) along a local axis
translateOnAxis(cam, axis, distance) ==
    [cam EXCEPT !.position =
        add(cam.position, multiplyScalar(applyQuaternion(axis, cam.quaternion), distance, TrigScale))]

translateZ(cam, distance) == translateOnAxis(cam, Vector3(0, 0, TrigScale), distance)

translateX(cam, distance) == translateOnAxis(cam, Vector3(TrigScale, 0, 0), distance)

\* a lookAt that leaves the camera turned as it was
lookAtNowhere(cam, point) == cam

\* Camera.lookAt: the local -Z axis is turned to the point, up stays world up
lookAt(cam, point) ==
    LET zAxis == normalize(sub(cam.position, point))
        xAxis == normalize(cross(up, zAxis))
        yAxis == cross(zAxis, xAxis)
    IN  [cam EXCEPT !.quaternion = [x |-> xAxis, y |-> yAxis, z |-> zAxis]]

-----------------------------------------------------------------------------
(* The scene.  A child is [name, type, faces]; a face is a large plane     *)
(* [axis, at] perpendicular to a world axis (the faces of the child and of *)
(* its descendants, in world space).                                       *)

Face(a, c) == [axis |-> a, at |-> c]

Object3DTypes == {"Object3D", "Mesh", "PerspectiveCamera", "DirectionalLight"}

\* init() and buildScene(): the camera, the floor and the two lights
BuildScene ==
    { [name |-> "camera", type |-> "PerspectiveCamera", faces |-> {}],
      [name |-> "floor", type |-> "Mesh",
       faces |-> {Face("y", (FloorHeight * PosScale) \div 2),
                  Face("y", -((FloorHeight * PosScale) \div 2))}],
      [name |-> "directionalLight1", type |-> "DirectionalLight", faces |-> {}],
      [name |-> "directionalLight2", type |-> "DirectionalLight", faces |-> {}] }

\* what shed/Shed.obj holds, in the object's own frame: a wall across x and
\* a wall on either side in z
ShedFaces ==
    { Face("x", 0), Face("z", ShedX * PosScale), Face("z", -(ShedX * PosScale)) }

\* the loaded object, put at (ShedX, ShedY, 0)
PlaceShed(faces) ==
    LET offset == Vector3(ShedX * PosScale, ShedY * PosScale, 0)
    IN  [name |-> "shed", type |-> "Object3D",
         faces |-> { Face(f.axis, f.at + offset[f.axis]) : f \in faces }]

getCollideableObjects(sc) ==
    { child \in sc : child.type = "Mesh" \/ child.type \in Object3DTypes }

\* THREE.Raycaster
Raycaster(origin, direction, near, far) ==
    [origin |-> origin, direction |-> direction, near |-> near, far |-> far]

\* the ray meets the face at a distance within [near, far]
RayHitsFace(ray, f) ==
    LET d == ray.direction[f.axis]
        gap == f.at - ray.origin[f.axis]
        len == length(ray.direction)
    IN  /\ d # 0
        /\ gap * Sign(d) >= 0
        /\ Abs(gap) * len >= ray.near * Abs(d)
        /\ Abs(gap) * len <= ray.far * Abs(d)

\* Raycaster.intersectObjects(objects, true): one intersection per face met
intersectObjects(ray, objects) ==
    UNION { { <<child.name, f>> : f \in { g \in child.faces : RayHitsFace(ray, g) } }
            : child \in objects }

-----------------------------------------------------------------------------
(* THREE.KeyControls (the second definition, which replaces the first).    *)

\* JavaScript's !v of a field that is undefined, true or false
Not(v) == IF v = "true" THEN "false" ELSE "true"

\* onKeyDown with a default case that walks forward
onKeyDownDefault(keyCode) ==
    /\ translateForward' =
          IF keyCode \in {KeyW, KeyUpArrow} \/ keyCode \notin RecognizedKeys
          THEN TRUE ELSE translateForward
    /\ translateLeft' = IF keyCode = KeyA THEN TRUE ELSE translateLeft
    /\ translateBackward' =
          IF keyCode \in {KeyS, KeyDownArrow} THEN TRUE ELSE translateBackward
    /\ translateRight' = IF keyCode = KeyD THEN TRUE ELSE translateRight
    /\ yawLeft' = IF keyCode \in {KeyLeftArrow, KeyQ} THEN TRUE ELSE yawLeft
    /\ yawRight' = IF keyCode \in {KeyRightArrow, KeyE} THEN TRUE ELSE yawRight
    /\ freeze' = IF keyCode = KeyEsc THEN Not(freeze) ELSE freeze
    /\ UNCHANGED <<pitchUp, pitchDown>>

\* onKeyDown with the up and down arrows pitching
onKeyDownPitching(keyCode) ==
    /\ translateForward' = IF keyCode = KeyW THEN TRUE ELSE translateForward
    /\ translateLeft' = IF keyCode = KeyA THEN TRUE ELSE translateLeft
    /\ translateBackward' = IF keyCode = KeyS THEN TRUE ELSE translateBackward
    /\ translateRight' = IF keyCode = KeyD THEN TRUE ELSE translateRight
    /\ pitchUp' = IF keyCode = KeyUpArrow THEN TRUE ELSE pitchUp
    /\ pitchDown' = IF keyCode = KeyDownArrow THEN TRUE ELSE pitchDown
    /\ yawLeft' = IF keyCode \in {KeyLeftArrow, KeyQ} THEN TRUE ELSE yawLeft
    /\ yawRight' = IF keyCode \in {KeyRightArrow, KeyE} THEN TRUE ELSE yawRight
    /\ freeze' = IF keyCode = KeyEsc THEN Not(freeze) ELSE freeze

\* the switch of onKeyDown
onKeyDown(keyCode) ==
    /\ translateForward' =
          IF keyCode \in {KeyW, KeyUpArrow} THEN TRUE ELSE translateForward
    /\ translateLeft' = IF keyCode = KeyA THEN TRUE ELSE translateLeft
    /\ translateBackward' =
          IF keyCode \in {KeyS, KeyDownArrow} THEN TRUE ELSE translateBackward
    /\ translateRight' = IF keyCode = KeyD THEN TRUE ELSE translateRight
    /\ yawLeft' = IF keyCode \in {KeyLeftArrow, KeyQ} THEN TRUE ELSE yawLeft
    /\ yawRight' = IF keyCode \in {KeyRightArrow, KeyE} THEN TRUE ELSE yawRight
    /\ freeze' = IF keyCode = KeyEsc THEN Not(freeze) ELSE freeze
    /\ UNCHANGED <<pitchUp, pitchDown>>

\* onKeyUp without the case of Q
onKeyUpWithoutQ(keyCode) ==
    /\ translateForward' =
          IF keyCode \in {KeyW, KeyUpArrow} THEN FALSE ELSE translateForward
    /\ translateLeft' = IF keyCode = KeyA THEN FALSE ELSE translateLeft
    /\ translateBackward' =
          IF keyCode \in {KeyS, KeyDownArrow} THEN FALSE ELSE translateBackward
    /\ translateRight' = IF keyCode = KeyD THEN FALSE ELSE translateRight
    /\ yawLeft' = IF keyCode = KeyLeftArrow THEN FALSE ELSE yawLeft
    /\ yawRight' = IF keyCode \in {KeyRightArrow, KeyE} THEN FALSE ELSE yawRight
    /\ freeze' = IF keyCode = KeyEsc THEN Not(freeze) ELSE freeze
    /\ UNCHANGED <<pitchUp, pitchDown>>

\* onKeyUp keeping translateForward set while W is still down
onKeyUpWhileHeld(keyCode) ==
    /\ translateForward' =
          IF keyCode \in {KeyW, KeyUpArrow}
          THEN keyCode # KeyW /\ KeyW \in held
          ELSE translateForward
    /\ translateLeft' = IF keyCode = KeyA THEN FALSE ELSE translateLeft
    /\ translateBackward' =
          IF keyCode \in {KeyS, KeyDownArrow} THEN FALSE ELSE translateBackward
    /\ translateRight' = IF keyCode = KeyD THEN FALSE ELSE translateRight
    /\ yawLeft' = IF keyCode \in {KeyLeftArrow, KeyQ} THEN FALSE ELSE yawLeft
    /\ yawRight' = IF keyCode \in {KeyRightArrow, KeyE} THEN FALSE ELSE yawRight
    /\ freeze' = IF keyCode = KeyEsc THEN Not(freeze) ELSE freeze
    /\ UNCHANGED <<pitchUp, pitchDown>>

\* the switch of onKeyUp
onKeyUp(keyCode) ==
    /\ translateForward' =
          IF keyCode \in {KeyW, KeyUpArrow} THEN FALSE ELSE translateForward
    /\ translateLeft' = IF keyCode = KeyA THEN FALSE ELSE translateLeft
    /\ translateBackward' =
          IF keyCode \in {KeyS, KeyDownArrow} THEN FALSE ELSE translateBackward
    /\ translateRight' = IF keyCode = KeyD THEN FALSE ELSE translateRight
    /\ yawLeft' = IF keyCode \in {KeyLeftArrow, KeyQ} THEN FALSE ELSE yawLeft
    /\ yawRight' = IF keyCode \in {KeyRightArrow, KeyE} THEN FALSE ELSE yawRight
    /\ freeze' = IF keyCode = KeyEsc THEN Not(freeze) ELSE freeze
    /\ UNCHANGED <<pitchUp, pitchDown>>

\* a probe that reaches no farther than the translation
ProbeRangeWithoutMargin(units) == units

\* a probe that counts the margin twice
ProbeRangeWide(units) == units + 2 * collisionMargin * PosScale

\* the range of a probe for a translation of units (1/PosScale)
ProbeRange(units) == units + collisionMargin * PosScale

\* the direction translateViewZ probes
DirectionZ(cam, forward) ==
    LET cameraDirVector == applyQuaternion(Vector3(0, 0, -TrigScale), cam.quaternion)
    IN  IF forward THEN cameraDirVector ELSE multiplyScalar(cameraDirVector, -1, 1)

\* the direction translateViewX probes
DirectionX(cam, right) ==
    LET cameraDirVector == applyQuaternion(Vector3(0, 0, -TrigScale), cam.quaternion)
        upVector == Vector3(0, TrigScale, 0)
    IN  IF right THEN cross(cameraDirVector, upVector) ELSE cross(upVector, cameraDirVector)

\* an attempted translation: what was probed and what became of the camera
Attempt(fn, positive, units, cam, direction, intersections, translated, result) ==
    [fn |-> fn, positive |-> positive, units |-> units, from |-> cam.position,
     direction |-> direction, hits |-> Cardinality(intersections),
     translated |-> translated, to |-> result.position]

\* translateViewZ translating whatever the probe meets
translateViewZUnchecked(s, sc, forward, units) ==
    LET modelObjects == getCollideableObjects(sc)
        directionVector == DirectionZ(s.camera, forward)
        raycaster == Raycaster(s.camera.position, directionVector, 0, units + collisionMargin * PosScale)
        intersections == intersectObjects(raycaster, modelObjects)
        result == translateZ(s.camera, (IF forward THEN -1 ELSE 1) * units)
    IN  [camera |-> result,
         attempts |-> Append(s.attempts,
             Attempt("translateViewZ", forward, units, s.camera, directionVector,
                     intersections, TRUE, result))]

\* translateViewZ on s = [camera, attempts]: the camera after it, and the
\* attempt added to those made so far
translateViewZ(s, sc, forward, units) ==
    LET modelObjects == getCollideableObjects(sc)
        directionVector == DirectionZ(s.camera, forward)
        raycaster == Raycaster(s.camera.position, directionVector, 0, ProbeRange(units))
        intersections == intersectObjects(raycaster, modelObjects)
        translated == Cardinality(intersections) < 1
        result == IF translated
                  THEN translateZ(s.camera, (IF forward THEN -1 ELSE 1) * units)
                  ELSE s.camera
    IN  [camera |-> result,
         attempts |-> Append(s.attempts,
             Attempt("translateViewZ", forward, units, s.camera, directionVector,
                     intersections, translated, result))]

\* translateViewX on s = [camera, attempts]
translateViewX(s, sc, right, units) ==
    LET modelObjects == getCollideableObjects(sc)
        directionVector == DirectionX(s.camera, right)
        raycaster == Raycaster(s.camera.position, directionVector, 0, ProbeRange(units))
        intersections == intersectObjects(raycaster, modelObjects)
        translated == Cardinality(intersections) < 1
        result == IF translated
                  THEN translateX(s.camera, (IF right THEN 1 ELSE -1) * units)
                  ELSE s.camera
    IN  [camera |-> result,
         attempts |-> Append(s.attempts,
             Attempt("translateViewX", right, units, s.camera, directionVector,
                     intersections, translated, result))]

\* timeDelta alone, movementSpeed left out
translationSpeedOfTime(timeDelta) == timeDelta * PosScale

\* timeDelta * this.movementSpeed, in 1/PosScale
translationSpeed(timeDelta) == timeDelta * movementSpeed * PosScale

\* translateView attempting backward before forward
translateViewBackwardFirst(cam, sc, timeDelta) ==
    LET units == timeDelta * movementSpeed * PosScale
        s0 == { [camera |-> cam, attempts |-> <<>>] }
        s1 == { IF translateBackward THEN translateViewZ(s, sc, FALSE, units) ELSE s : s \in s0 }
        s2 == { IF translateForward THEN translateViewZ(s, sc, TRUE, units) ELSE s : s \in s1 }
        s3 == { IF translateLeft THEN translateViewX(s, sc, FALSE, units) ELSE s : s \in s2 }
        s4 == { IF translateRight THEN translateViewX(s, sc, TRUE, units) ELSE s : s \in s3 }
    IN  s4

\* translateView: the set holding its one outcome [camera, attempts], the
\* attempts in the order they are made (a set, so that each of the four steps
\* is worked out once, from the outcome of the step before)
translateView(cam, sc, timeDelta) ==
    LET units == translationSpeed(timeDelta)
        s0 == { [camera |-> cam, attempts |-> <<>>] }
        s1 == { IF translateForward THEN translateViewZ(s, sc, TRUE, units) ELSE s : s \in s0 }
        s2 == { IF translateBackward THEN translateViewZ(s, sc, FALSE, units) ELSE s : s \in s1 }
        s3 == { IF translateLeft THEN translateViewX(s, sc, FALSE, units) ELSE s : s \in s2 }
        s4 == { IF translateRight THEN translateViewX(s, sc, TRUE, units) ELSE s : s \in s3 }
    IN  s4

\* rotateView, lines 637-638: theta after the yaw step
rotateTheta ==
    LET actualLookSpeed == lookSpeed
        t1 == IF yawLeft THEN theta - actualLookSpeed ELSE theta
    IN  IF yawRight THEN t1 + actualLookSpeed ELSE t1

\* a clamp from below only
clampLatBelow(l) == IF l < -(LatLimit * LatScale) THEN -(LatLimit * LatScale) ELSE l

\* Math.max(-89, Math.min(89, lat))
clampLat(l) == Max(-(LatLimit * LatScale), Min(LatLimit * LatScale, l))

\* the pitch step taken whatever lookVertical is
rotateLatAlways ==
    LET invertfactor == IF invertVertical THEN 1 ELSE -1
        step == invertfactor * (LatScale \div 2)
        l1 == IF pitchUp THEN lat + step ELSE lat
        l2 == IF pitchDown THEN l1 - step ELSE l1
    IN  clampLat(l2)

\* rotateView, lines 641-646: lat after the pitch step and the clamp
rotateLat ==
    LET invertfactor == IF invertVertical THEN 1 ELSE -1
        step == invertfactor * (LatScale \div 2)
        l1 == IF lookVertical /\ pitchUp THEN lat + step ELSE lat
        l2 == IF lookVertical /\ pitchDown THEN l1 - step ELSE l1
    IN  clampLat(l2)

\* phi taken from lat itself
rotatePhiOfLat(l) == RoundDiv(l * Pi, 180 * LatScale)

\* rotateView, line 647
rotatePhi(l) == degToRad(90 * LatScale - l)

\* the target moved on from where it was (+= for =)
targetPositionAdding(position, ph, th) ==
    LET ahead == distanceAhead * PosScale
        horizontal == RoundDiv(ahead * MathSin(ph), TrigScale)
    IN  Vector3(target.x + position.x + RoundDiv(horizontal * MathCos(th), TrigScale),
                target.y + position.y + RoundDiv(ahead * MathCos(ph), TrigScale),
                target.z + position.z + RoundDiv(horizontal * MathSin(th), TrigScale))

\* rotateView, lines 653-656: the point distanceAhead from position along (phi, theta)
targetPosition(position, ph, th) ==
    LET ahead == distanceAhead * PosScale
        horizontal == RoundDiv(ahead * MathSin(ph), TrigScale)
    IN  Vector3(position.x + RoundDiv(horizontal * MathCos(th), TrigScale),
                position.y + RoundDiv(ahead * MathCos(ph), TrigScale),
                position.z + RoundDiv(horizontal * MathSin(th), TrigScale))

-----------------------------------------------------------------------------
(* The events. *)

\* an event as last keeps it: what happened, and lat, theta, phi, the target,
\* the camera and updated as they were when it started
Event(op, key, dt, attempts) ==
    [op |-> op, key |-> key, dt |-> dt, attempts |-> attempts,
     before |-> [lat |-> lat, theta |-> theta, phi |-> phi, target |-> target,
                 camera |-> camera, updated |-> updated]]

\* the part of the world the model explores, a second's travel being
\* movementSpeed units: the x axis within MaxPos seconds of the origin, and
\* the square a second along -z and a second along +x, where the forward
\* steps of the first frame and of the one after it lead
InBounds(position, th) ==
    /\ \/ position.z = 0 /\ Abs(position.x) <= MaxPos * movementSpeed * PosScale
       \/ /\ position.x >= 0
          /\ position.x <= movementSpeed * PosScale
          /\ position.z <= 0
          /\ position.z >= -(movementSpeed * PosScale)
    /\ Abs(th) <= MaxTheta * lookSpeed

\* the state when $(document).ready has run init(): the controller as
\* constructed (its flags apart), the camera at height CameraY, the scene
\* without the shed
Constructed ==
    /\ freeze = "undefined"
    /\ lat = 0 /\ phi = 0 /\ theta = 0
    /\ target = Vector3(0, 0, 0)
    /\ camera = [position |-> Vector3(0, CameraY * PosScale, 0),
                 quaternion |-> IdentityQuaternion]
    /\ scene = BuildScene
    /\ lookSpeed = Pi \div 2
    /\ held = {}
    /\ updated = FALSE
    /\ last = Event("construct", 0, 0, <<>>)

Init ==
    /\ translateForward = FALSE /\ translateBackward = FALSE
    /\ translateLeft = FALSE /\ translateRight = FALSE
    /\ yawRight = FALSE /\ yawLeft = FALSE
    /\ pitchUp = FALSE /\ pitchDown = FALSE
    /\ movementSpeed = 1
    /\ lookVertical = TRUE
    /\ invertVertical = TRUE
    /\ Constructed

\* the controller with its public fields set by the host before the first
\* frame: the pitch flags (no key sets them), forward and yaw-left, the two
\* pitch options, and a movementSpeed of 0
InitPitch ==
    /\ translateForward \in BOOLEAN /\ translateBackward = FALSE
    /\ translateLeft = FALSE /\ translateRight = FALSE
    /\ yawRight = FALSE /\ yawLeft \in BOOLEAN
    /\ pitchUp \in BOOLEAN /\ pitchDown \in BOOLEAN
    /\ movementSpeed = 0
    /\ lookVertical \in BOOLEAN
    /\ invertVertical \in BOOLEAN
    /\ Constructed

\* the number of movement flags that are set
Held ==
    Cardinality({ i \in 1..6 :
        <<translateForward, translateBackward, translateLeft, translateRight,
          yawRight, yawLeft>>[i] })

\* the keydown listener
KeyDown(k) ==
    /\ onKeyDown(k)
    /\ Held' <= MaxHeld
    /\ last' = Event("keydown", k, 0, <<>>)
    /\ UNCHANGED <<config, angles, camera, world, updated>>

\* the keyup listener
KeyUp(k) ==
    /\ onKeyUp(k)
    /\ last' = Event("keyup", k, 0, <<>>)
    /\ UNCHANGED <<config, angles, camera, world, updated>>

\* updateView letting go of forward when a translation was blocked
UpdateViewReleasing(timeDelta) ==
    \E moved \in translateView(camera, scene, timeDelta) :
    \E tp \in { targetPosition(moved.camera.position, rotatePhi(rotateLat), rotateTheta) } :
        /\ InBounds(moved.camera.position, rotateTheta)
        /\ theta' = rotateTheta
        /\ lat' = rotateLat
        /\ phi' = rotatePhi(rotateLat)
        /\ target' = tp
        /\ camera' = lookAt(moved.camera, tp)
        /\ last' = Event("updateView", 0, timeDelta, moved.attempts)
        /\ updated' = TRUE
        /\ translateForward' =
              (translateForward /\ \A i \in DOMAIN moved.attempts : moved.attempts[i].translated)
        /\ UNCHANGED <<translateBackward, translateLeft, translateRight, yawRight,
                       yawLeft, pitchUp, pitchDown, freeze>>
        /\ UNCHANGED <<config, world, held>>

\* updateView rotating before it translates
UpdateViewRotatingFirst(timeDelta) ==
    \E tp \in { targetPosition(camera.position, rotatePhi(rotateLat), rotateTheta) } :
    \E moved \in translateView(lookAt(camera, tp), scene, timeDelta) :
        /\ InBounds(moved.camera.position, rotateTheta)
        /\ theta' = rotateTheta
        /\ lat' = rotateLat
        /\ phi' = rotatePhi(rotateLat)
        /\ target' = tp
        /\ camera' = moved.camera
        /\ last' = Event("updateView", 0, timeDelta, moved.attempts)
        /\ updated' = TRUE
        /\ UNCHANGED <<flags, config, world, held>>

\* updateView not yawing when a translation was blocked
UpdateViewGated(timeDelta) ==
    \E moved \in translateView(camera, scene, timeDelta) :
    \E th \in { IF \A i \in DOMAIN moved.attempts : moved.attempts[i].translated
                THEN rotateTheta ELSE theta } :
    \E tp \in { targetPosition(moved.camera.position, rotatePhi(rotateLat), th) } :
        /\ InBounds(moved.camera.position, th)
        /\ theta' = th
        /\ lat' = rotateLat
        /\ phi' = rotatePhi(rotateLat)
        /\ target' = tp
        /\ camera' = lookAt(moved.camera, tp)
        /\ last' = Event("updateView", 0, timeDelta, moved.attempts)
        /\ updated' = TRUE
        /\ UNCHANGED <<flags, config, world, held>>

\* render(): controls.updateView(clock.getDelta())
UpdateView(timeDelta) ==
    \E moved \in translateView(camera, scene, timeDelta) :
    \E tp \in { targetPosition(moved.camera.position, rotatePhi(rotateLat), rotateTheta) } :
        /\ InBounds(moved.camera.position, rotateTheta)
        /\ theta' = rotateTheta
        /\ lat' = rotateLat
        /\ phi' = rotatePhi(rotateLat)
        /\ target' = tp
        /\ camera' = lookAt(moved.camera, tp)
        /\ last' = Event("updateView", 0, timeDelta, moved.attempts)
        /\ updated' = TRUE
        /\ UNCHANGED <<flags, config, world, held>>

\* the OBJLoader callback: the loaded object is added to the scene
LoaderOnLoad ==
    /\ \A child \in scene : child.name # "shed"
    /\ scene' = scene \cup {PlaceShed(ShedFaces)}
    /\ last' = Event("load", 0, 0, <<>>)
    /\ UNCHANGED <<flags, config, angles, camera, held, updated>>

\* the keyboard is not watched: held stays empty
Unwatched == UNCHANGED held

\* the keyboard is watched: held follows the watched keys going down and up,
\* and a watched key goes up only when it is down
Watched(k, down) ==
    /\ (k \in WatchedKeys /\ ~down) => k \in held
    /\ held' = IF down THEN held \cup ({k} \cap WatchedKeys) ELSE held \ {k}

Next ==
    \/ \E k \in Keys : KeyDown(k) /\ Unwatched
    \/ \E k \in Keys : KeyUp(k) /\ Unwatched
    \/ \E timeDelta \in 0..MaxDt : UpdateView(timeDelta)
    \/ LoaderOnLoad

Spec == Init /\ [][Next]_vars

\* the translation keys and the frames before the shed has loaded, the
\* keyboard watched
NextKeys ==
    \/ \E k \in TranslationKeys : KeyDown(k) /\ Watched(k, TRUE)
    \/ \E k \in TranslationKeys : KeyUp(k) /\ Watched(k, FALSE)
    \/ \E timeDelta \in 0..MaxDt : UpdateView(timeDelta)

SpecKeys == Init /\ [][NextKeys]_vars

\* frames and the loader alone, on a controller whose flags the host has set
NextPitch ==
    \/ \E timeDelta \in 0..MaxDt : UpdateView(timeDelta)
    \/ LoaderOnLoad

SpecPitch == InitPitch /\ [][NextPitch]_vars

\* a controller with movementSpeed set to 10, on a camera at the origin of a
\* scene with nothing to collide with
InitWalk ==
    /\ translateForward = FALSE /\ translateBackward = FALSE
    /\ translateLeft = FALSE /\ translateRight = FALSE
    /\ yawRight = FALSE /\ yawLeft = FALSE
    /\ pitchUp = FALSE /\ pitchDown = FALSE
    /\ freeze = "undefined"
    /\ movementSpeed = 10
    /\ lookSpeed = Pi \div 2
    /\ lookVertical = TRUE
    /\ invertVertical = FALSE
    /\ lat = 0 /\ phi = 0 /\ theta = 0
    /\ target = Vector3(0, 0, 0)
    /\ camera = [position |-> Vector3(0, 0, 0), quaternion |-> IdentityQuaternion]
    /\ scene = { child \in BuildScene : child.faces = {} }
    /\ held = {}
    /\ updated = FALSE
    /\ last = Event("construct", 0, 0, <<>>)

\* the movement keys and the frames
NextWalk ==
    \/ \E k \in MovementKeys : KeyDown(k) /\ Unwatched
    \/ \E k \in MovementKeys : KeyUp(k) /\ Unwatched
    \/ \E timeDelta \in 0..MaxDt : UpdateView(timeDelta)

SpecWalk == InitWalk /\ [][NextWalk]_vars

-----------------------------------------------------------------------------
(* What the properties below speak of. *)

\* the last event was a call of updateView
Frame == last.op = "updateView"

\* the translations the last call of updateView attempted
Attempts == { last.attempts[i] : i \in DOMAIN last.attempts }

\* the faces of the collidable objects
Surfaces == UNION { child.faces : child \in getCollideableObjects(scene) }

\* face f lies ahead of point p along v
Ahead(f, p, v) ==
    /\ v[f.axis] # 0
    /\ (f.at - p[f.axis]) * Sign(v[f.axis]) >= 0

\* face f lies ahead of p along v, no farther than r (1/PosScale)
Within(f, p, v, r) ==
    /\ Ahead(f, p, v)
    /\ Abs(f.at - p[f.axis]) * length(v) <= r * Abs(v[f.axis])

\* face f lies ahead of p along v, nearer than r (1/PosScale)
Nearer(f, p, v, r) ==
    /\ Ahead(f, p, v)
    /\ Abs(f.at - p[f.axis]) * length(v) < r * Abs(v[f.axis])

\* where attempt a leaves the camera when it is applied: units along the
\* local axis asked for, the camera turned as it was when the frame began
Destination(a) ==
    LET q == last.before.camera.quaternion
        axis == IF a.fn = "translateViewZ" THEN q.z ELSE q.x
        sign == IF a.fn = "translateViewZ"
                THEN (IF a.positive THEN -1 ELSE 1)
                ELSE (IF a.positive THEN 1 ELSE -1)
    IN  add(a.from, multiplyScalar(axis, sign * a.units, TrigScale))

MovementFlags ==
    <<translateForward, translateBackward, translateLeft, translateRight,
      yawLeft, yawRight>>

\* the place in MovementFlags of the flag a movement key maps to
MappedFlag(k) ==
    CASE k \in {KeyW, KeyUpArrow} -> 1
      [] k \in {KeyS, KeyDownArrow} -> 2
      [] k = KeyA -> 3
      [] k = KeyD -> 4
      [] k \in {KeyLeftArrow, KeyQ} -> 5
      [] k \in {KeyRightArrow, KeyE} -> 6

-----------------------------------------------------------------------------
(* Collision. *)

\* C1: after a call of updateView, every translation it applied went over a
\* stretch with no collidable surface on it, and left no collidable surface
\* within collisionMargin of the camera's new position along the direction
\* moved.
NoSurfaceWithinMargin ==
    Frame =>
        \A a \in Attempts :
            a.translated =>
                \A f \in Surfaces :
                    /\ ~Within(f, a.from, a.direction, a.units)
                    /\ ~Within(f, a.to, a.direction, collisionMargin * PosScale)

\* a forward step was applied with the wall ahead, and a step of one unit
\* more would have been blocked
AppliedNextToMargin ==
    /\ Frame
    /\ \E a \in Attempts :
           /\ a.to # a.from
           /\ \E f \in Surfaces :
                  Within(f, a.to, a.direction, (collisionMargin + 1) * PosScale)

\* C2: an attempted translation moves the camera by exactly its distance
\* along the local axis asked for if and only if the probe returns no
\* intersection; with one or more intersections the position is unchanged.
AppliedIffNoIntersection ==
    Frame =>
        \A a \in Attempts :
            /\ a.hits = 0 => a.to = Destination(a)
            /\ a.hits >= 1 => a.to = a.from
            /\ a.units > 0 => (a.to # a.from <=> a.hits = 0)

\* one frame in which a translation was blocked and another applied
BlockedAndApplied ==
    /\ Frame
    /\ \E a, b \in Attempts :
           /\ a.units > 0 /\ a.hits >= 1 /\ a.to = a.from
           /\ b.hits = 0 /\ b.to # b.from

\* C3: the probe of a forward translation reaches distance + collisionMargin
\* from the camera's position, distance being dt * movementSpeed: with every
\* collidable surface ahead farther than that the translation is applied,
\* with one nearer than that the position is unchanged.
ProbeReachesDistancePlusMargin ==
    Frame =>
        \A a \in Attempts :
            (a.fn = "translateViewZ" /\ a.positive) =>
                LET distance == last.dt * movementSpeed * PosScale
                    reach == distance + collisionMargin * PosScale
                IN  /\ a.units = distance
                    /\ (\A f \in Surfaces : ~Within(f, a.from, a.direction, reach))
                           => a.to = Destination(a)
                    /\ (\E f \in Surfaces : Nearer(f, a.from, a.direction, reach))
                           => a.to = a.from

\* a forward translation was blocked by a surface beyond the distance to be
\* travelled and within the margin after it
BlockedWithinMargin ==
    /\ Frame
    /\ \E a \in Attempts :
           /\ a.fn = "translateViewZ" /\ a.positive
           /\ a.units > 0
           /\ a.to = a.from
           /\ \E f \in Surfaces :
                  /\ Nearer(f, a.from, a.direction, a.units + collisionMargin * PosScale)
                  /\ ~Within(f, a.from, a.direction, a.units)

-----------------------------------------------------------------------------
(* Pitch. *)

LatMax == LatLimit * LatScale

\* phi is degToRad(90 - lat), within [degToRad(1), degToRad(179)], not 0 or pi
PhiFollowsLat ==
    /\ phi = degToRad(90 * LatScale - lat)
    /\ phi >= degToRad(1 * LatScale)
    /\ phi <= degToRad(179 * LatScale)
    /\ phi # 0
    /\ phi # Pi

\* C4: in every state reached after a call of updateView, lat is within
\* [-89, 89], whatever the pitch flags, lookVertical and invertVertical are and
\* however many frames in a row have a pitch flag set.
LatWithinLimits ==
    updated => (lat >= -LatMax /\ lat <= LatMax)

\* a frame that began with lat at the upper limit and a pitch flag pushing it up
ClampedAtLimit ==
    /\ Frame
    /\ last.before.lat = LatMax
    /\ lookVertical /\ invertVertical /\ pitchUp /\ ~pitchDown
    /\ lat = LatMax

\* C5, as the specification has it: phi is degToRad(90 - lat), within
\* [degToRad(1), degToRad(179)], in every state from construction onward.
PhiAlwaysFollowsLat == PhiFollowsLat

\* C5: phi is 0 from construction until the first call of updateView; in
\* every state after a call of updateView phi is degToRad(90 - lat) and lies
\* within [degToRad(1), degToRad(179)], never 0 or pi.
PhiFollowsLatOnceUpdated ==
    IF updated THEN PhiFollowsLat ELSE phi = 0

\* lat has been pitched down to the lower limit, phi is degToRad(179)
PhiAtLowerLimit ==
    /\ updated
    /\ lat = -LatMax
    /\ phi = degToRad(179 * LatScale)

-----------------------------------------------------------------------------
(* The keyboard. *)

\* C6, as the specification has it: a key-up does not change freeze.
FreezeUnchangedByKeyUp ==
    [][last'.op = "keyup" => freeze' = freeze]_vars

\* C7: key-down of a movement key sets the flag it maps to, key-up of it
\* clears that flag, and neither changes any other flag.
KeySetsItsFlagOnly ==
    [][(last'.op \in {"keydown", "keyup"} /\ last'.key \in MovementKeys) =>
          /\ MovementFlags' =
                [MovementFlags EXCEPT ![MappedFlag(last'.key)] = (last'.op = "keydown")]
          /\ UNCHANGED <<pitchUp, pitchDown, freeze>>]_vars

\* Q has gone up: yawLeft is cleared, and yawRight, set before, is still set
ReleasedQ ==
    /\ last.op = "keyup" /\ last.key = KeyQ
    /\ ~yawLeft
    /\ yawRight

\* C8: after a key-up of a translation key the flag it maps to is false,
\* whatever other keys are down, and a call of updateView attempts no
\* translation whose flag is false.
ReleasedFlagIsFalse ==
    /\ (last.op = "keyup" /\ last.key \in TranslationKeys)
           => ~MovementFlags[MappedFlag(last.key)]
    /\ Frame =>
           \A a \in Attempts :
               MovementFlags[IF a.fn = "translateViewZ"
                             THEN (IF a.positive THEN 1 ELSE 2)
                             ELSE (IF a.positive THEN 4 ELSE 3)]

\* W went down and stays down, Up went down and up: translateForward is false
ReleasedUpWithWHeld ==
    /\ last.op = "keyup" /\ last.key = KeyUpArrow
    /\ KeyW \in held
    /\ ~translateForward

\* C9: a key-down or key-up of any key leaves the camera, lat, theta, phi and
\* the target unchanged; of an unrecognized key, the flags and the rest of
\* the controller too.
KeyHandlersWriteFlagsOnly ==
    [][last'.op \in {"keydown", "keyup"} =>
          /\ UNCHANGED <<camera, lat, theta, phi, target>>
          /\ last'.key \notin RecognizedKeys => UNCHANGED <<flags, config, angles, camera>>]_vars

\* an unrecognized key went down after the camera had walked and turned
UnrecognizedKeyDown ==
    /\ last.op = "keydown" /\ last.key \in OtherKeys
    /\ updated
    /\ camera.position.x # 0
    /\ theta # 0
    /\ ~translateForward

\* C10: a call of updateView leaves every flag unchanged, whether it applied
\* a translation or a translation was blocked.
UpdateViewLeavesFlags ==
    [][last'.op = "updateView" => UNCHANGED flags]_vars

\* a frame with forward set and blocked, yawLeft set and theta turned
BlockedAndTurned ==
    /\ Frame
    /\ translateForward /\ yawLeft
    /\ theta # last.before.theta
    /\ \E a \in Attempts : a.units > 0 /\ a.hits >= 1


-----------------------------------------------------------------------------
(* The frame. *)

\* how many of the four translate flags are set
TranslateFlagsSet ==
    Cardinality({ i \in 1..4 : MovementFlags[i] })

\* the point 100 ahead of p along (phi, theta)
Ahead100(p) ==
    LET r == 100 * PosScale
        h == RoundDiv(r * MathSin(phi), TrigScale)
    IN  [x |-> p.x + RoundDiv(h * MathCos(theta), TrigScale),
         y |-> p.y + RoundDiv(r * MathCos(phi), TrigScale),
         z |-> p.z + RoundDiv(h * MathSin(theta), TrigScale)]

\* C11: a call of updateView translates and then rotates, once each: it
\* makes one attempt for each translate flag that is set, starting where the
\* camera was, and the target it leaves is the position after its
\* translations + 100 * (sin(phi)cos(theta), cos(phi), sin(phi)sin(theta)).
TranslatesThenRotates ==
    Frame =>
        /\ Len(last.attempts) = TranslateFlagsSet
        /\ last.attempts # <<>> =>
               /\ last.attempts[1].from = last.before.camera.position
               /\ last.attempts[Len(last.attempts)].to = camera.position
        /\ last.attempts = <<>> => camera.position = last.before.camera.position
        /\ target = Ahead100(camera.position)

\* a frame that moved the camera and turned it
MovedAndTurned ==
    /\ Frame
    /\ camera.position # last.before.camera.position
    /\ theta # last.before.theta
    /\ target # Ahead100(last.before.camera.position)

\* no movement or pitch flag is set
NoFlagSet ==
    /\ \A i \in 1..6 : ~MovementFlags[i]
    /\ ~pitchUp /\ ~pitchDown

\* C12: a call updateView(0) with no flag set leaves the camera's position,
\* lat and theta as they were, and, when a frame has gone before, phi and the
\* target as that frame left them: however often it is repeated, lat, theta,
\* phi, the position and the target stay the same.
UpdateViewZeroIsIdempotent ==
    (Frame /\ last.dt = 0 /\ NoFlagSet) =>
        /\ camera.position = last.before.camera.position
        /\ lat = last.before.lat
        /\ theta = last.before.theta
        /\ last.before.updated =>
               /\ phi = last.before.phi
               /\ target = last.before.target

\* updateView(0) was called with no flag set after the camera had walked and
\* turned in earlier frames
RepeatedStandingStill ==
    /\ Frame /\ last.dt = 0 /\ NoFlagSet
    /\ last.before.updated
    /\ camera.position.x # 0
    /\ theta # 0
    /\ target = last.before.target

\* the camera is at the origin facing -Z, theta and lat are 0, only the
\* forward flag is set and movementSpeed is 10, when a frame of 1 s begins
ForwardFromOrigin ==
    /\ Frame /\ last.dt = 1
    /\ movementSpeed = 10
    /\ last.before.camera.position = [x |-> 0, y |-> 0, z |-> 0]
    /\ applyQuaternion(Vector3(0, 0, -TrigScale), last.before.camera.quaternion)
          = Vector3(0, 0, -TrigScale)
    /\ last.before.theta = 0 /\ last.before.lat = 0
    /\ translateForward
    /\ \A i \in 2..6 : ~MovementFlags[i]
    /\ ~pitchUp /\ ~pitchDown
    /\ Surfaces = {}

\* C13: with the camera at the origin facing -Z, nothing to collide with,
\* only the forward flag set, movementSpeed 10 and dt 1, a call of updateView
\* lowers the camera's z by exactly 10 and leaves x and y as they were, with
\* theta 0 and lat 0 as before and phi pi/2.
ForwardStepOfTen ==
    ForwardFromOrigin =>
        /\ camera.position = [x |-> 0, y |-> 0, z |-> -(10 * PosScale)]
        /\ theta = 0
        /\ lat = 0
        /\ phi = Pi \div 2

\* the frame has been taken: the camera stands at z = -10
SteppedTenForward ==
    /\ ForwardFromOrigin
    /\ camera.position.z = -(10 * PosScale)
    /\ Len(last.attempts) = 1

\* C14: in every call of updateView theta changes by -lookSpeed if yawLeft is
\* set and by +lookSpeed if yawRight is set, by nothing when both are,
\* whatever dt is and whether a translation of the call was blocked or applied.
YawIsUnconditional ==
    Frame =>
        theta = last.before.theta
                  - (IF yawLeft THEN lookSpeed ELSE 0)
                  + (IF yawRight THEN lookSpeed ELSE 0)

\* a frame of more than a second in which a translation was blocked and
\* theta went up by lookSpeed
YawedRightWhileBlocked ==
    /\ Frame /\ last.dt > 1
    /\ yawRight /\ ~yawLeft
    /\ theta = last.before.theta + lookSpeed
    /\ \E a \in Attempts : a.units > 0 /\ a.hits >= 1 /\ a.to = a.from

\* the place of an attempt in the order forward, backward, left, right
Rank(a) ==
    IF a.fn = "translateViewZ"
    THEN (IF a.positive THEN 1 ELSE 2)
    ELSE (IF a.positive THEN 4 ELSE 3)

\* the point a distance of units behind p, for a camera turned as q
Behind(p, q, units) == add(p, multiplyScalar(q.z, units, TrigScale))

\* C15: a call of updateView makes its attempts in the order forward,
\* backward, left, right, each probing from where the attempt before it left
\* the camera.  With forward and backward both set (or left and right) and
\* neither probe obstructed, the camera ends where it began; with only the
\* forward probe obstructed it ends the distance behind where it began.
OppositeFlagsAttemptedInOrder ==
    Frame =>
        LET n == Len(last.attempts)
            start == last.before.camera.position
        IN  /\ \A i, j \in 1..n : i < j => Rank(last.attempts[i]) < Rank(last.attempts[j])
            /\ \A i \in 1..n :
                  last.attempts[i].from = IF i = 1 THEN start ELSE last.attempts[i - 1].to
            /\ (n = 2 /\ ((translateForward /\ translateBackward)
                          \/ (translateLeft /\ translateRight))) =>
                  ((last.attempts[1].hits = 0 /\ last.attempts[2].hits = 0)
                      => camera.position = start)
            /\ (n = 2 /\ translateForward /\ translateBackward) =>
                  ((last.attempts[1].hits >= 1 /\ last.attempts[2].hits = 0)
                      => camera.position =
                            Behind(start, last.before.camera.quaternion, last.attempts[2].units))

\* forward and backward both set, the forward probe obstructed, the backward
\* one not: the camera has ended a distance behind where it began
StalledForwardWentBackward ==
    /\ Frame /\ last.dt > 0
    /\ translateForward /\ translateBackward
    /\ Len(last.attempts) = 2
    /\ last.attempts[1].hits >= 1
    /\ last.attempts[2].hits = 0
    /\ last.attempts[2].from = last.before.camera.position
    /\ camera.position # last.before.camera.position

\* half a degree, in the unit of lat
HalfDegree == LatScale \div 2

\* what a frame adds to lat before the clamp, as C16 has it
PitchStep ==
    IF ~lookVertical THEN 0
    ELSE (IF pitchUp THEN (IF invertVertical THEN HalfDegree ELSE -HalfDegree) ELSE 0)
         + (IF pitchDown THEN (IF invertVertical THEN -HalfDegree ELSE HalfDegree) ELSE 0)

\* C16: a call of updateView changes lat only when lookVertical is true: by
\* -0.5 with pitchUp set and invertVertical false, by +0.5 with invertVertical
\* true, by the opposite with pitchDown set, by nothing with both set, and by
\* nothing with lookVertical false; the result is then clamped to [-89, 89].
PitchStepIsHalfDegree ==
    Frame =>
        LET stepped == last.before.lat + PitchStep
        IN  lat = IF stepped > LatMax THEN LatMax
                  ELSE IF stepped < -LatMax THEN -LatMax ELSE stepped

\* pitchUp alone, invertVertical false: lat has gone down by half a degree
\* from a value below 0
PitchedUpUninverted ==
    /\ Frame
    /\ lookVertical /\ ~invertVertical /\ pitchUp /\ ~pitchDown
    /\ last.before.lat < 0
    /\ lat = last.before.lat - HalfDegree

\* C17: over any sequence of key events and calls of updateView from
\* construction both pitch flags stay false and lat stays 0, and phi is
\* degToRad(90) after every call of updateView, lookVertical being enabled.
PitchUnreachableFromKeys ==
    /\ ~pitchUp /\ ~pitchDown
    /\ lat = 0
    /\ updated => phi = degToRad(90 * LatScale)

\* with lookVertical enabled and forward set by a key, a frame after the
\* first has walked the camera on: lat is 0 still
UpArrowWalkedLevel ==
    /\ Frame /\ last.dt > 0
    /\ lookVertical
    /\ translateForward
    /\ camera.position # last.before.camera.position
    /\ last.before.updated
    /\ lat = 0 /\ phi = degToRad(90 * LatScale)

\* the way a camera faces: its local -Z axis in the world
Heading(cam) == applyQuaternion(Vector3(0, 0, -TrigScale), cam.quaternion)

\* the unit vector along (phi, theta), phi being degToRad(90 - l)
HeadingOf(l, th) ==
    LET ph == degToRad(90 * LatScale - l)
    IN  Vector3(RoundDiv(MathSin(ph) * MathCos(th), TrigScale),
                MathCos(ph),
                RoundDiv(MathSin(ph) * MathSin(th), TrigScale))

\* C18: once updateView has been called the camera faces along (lat, theta)
\* whatever way it faced before, and until then it faces -Z; so the first
\* call with theta 0 leaves it facing +X, and every forward or backward
\* attempt probes and moves along the heading the camera had when the frame
\* began: -Z in the first frame, the heading of the frame before afterwards.
HeadingFollowsLatTheta ==
    /\ Heading(camera) =
          IF updated THEN HeadingOf(lat, theta) ELSE Vector3(0, 0, -TrigScale)
    /\ (Frame /\ theta = 0 /\ lat = 0) => Heading(camera) = Vector3(TrigScale, 0, 0)
    /\ Frame =>
          LET was == IF last.before.updated
                     THEN HeadingOf(last.before.lat, last.before.theta)
                     ELSE Vector3(0, 0, -TrigScale)
          IN  \A a \in Attempts :
                  a.fn = "translateViewZ" =>
                      LET along == IF a.positive THEN was ELSE multiplyScalar(was, -1, 1)
                      IN  /\ a.direction = along
                          /\ a.hits = 0 =>
                                a.to = add(a.from, multiplyScalar(along, a.units, TrigScale))

\* forward held with theta 0: the first frame took the camera along -Z, and
\* this later frame has taken it along +X from there
WalkedMinusZThenPlusX ==
    /\ Frame /\ last.before.updated
    /\ theta = 0 /\ last.before.theta = 0
    /\ translateForward
    /\ last.before.camera.position.z < 0
    /\ last.before.camera.position.x = 0
    /\ camera.position.z = last.before.camera.position.z
    /\ camera.position.x > 0

=============================================================================
